---- MODULE Spec2Model ----
(***************************************************************************)
(* Model of src/hooks/usePersistentState.ts: the recursive default merge   *)
(* (mergeDefaults) over a heap of JavaScript objects, and the hook         *)
(* usePersistentState (load precedence, debounced write-back, quota        *)
(* containment).                                                           *)
(*                                                                         *)
(* JavaScript values are records [t, v]:                                   *)
(*   undefined  [t |-> "undef", v |-> 0]                                   *)
(*   null       [t |-> "null",  v |-> 0]                                   *)
(*   number n   [t |-> "num",   v |-> n]                                   *)
(*   boolean    [t |-> "bool",  v |-> 0 or 1]                              *)
(*   string     [t |-> "str",   v |-> its length]  ("" is length 0)        *)
(*   reference  [t |-> "ref",   v |-> address in the heap]                 *)
(* A heap cell is [kind |-> "obj" or "arr", f |-> own enumerable           *)
(* properties]; array indices are the keys "0", "1".                       *)
(* A tree is the by-value view of a value: a primitive record, or          *)
(* [t |-> "obj"/"arr", f |-> key -> tree].                                 *)
(***************************************************************************)
EXTENDS Integers, Sequences, FiniteSets, TLC

VARIABLES
    heap,       \* the JavaScript heap: a sequence of cells, address = index
    pc,         \* position of the driver / lifecycle of the hook
    dflt,       \* address of the caller's defaults object (initialState / defaults)
    loadedV,    \* merge driver: the loaded value L handed to mergeDefaults
    res,        \* merge driver: the value mergeDefaults returned
    origD,      \* ghost: tree of the defaults when the run started
    origL,      \* ghost: tree of the loaded value when the run started
    muts,       \* merge driver: number of mutations applied to the result
    snapshot,   \* window.INITIAL_APP_STATE
    storage,    \* the text window.localStorage holds under key
    getThrows,  \* whether window.localStorage.getItem throws
    state,      \* the hook's React state
    initState,  \* ghost: the value the useState initializer returned
    quotaErrorNotified,  \* quotaErrorNotified.current
    saveTimeoutRef,      \* saveTimeoutRef.current: 0 for null, else a timer id
    timers,     \* the pending window.setTimeout timers
    nextId,     \* the id the next setTimeout returns
    effectPending,  \* a render was committed and its effect has not run yet
    hasCleanup, \* the last effect run returned its cleanup function
    now,        \* the clock, in ms
    reads,      \* number of getItem calls
    writes,     \* log of the setItem attempts
    warnings,   \* number of alert() warnings shown
    errors,     \* number of console.error calls
    upd         \* ghost: the states issued so far (the initial one, then one per update)

mvars == <<heap, pc, dflt, loadedV, res, origD, origL, muts>>
hvars == <<snapshot, storage, getThrows, state, initState, quotaErrorNotified,
           saveTimeoutRef, timers, nextId, effectPending, hasCleanup, now,
           reads, writes, warnings, errors, upd>>
vars == <<mvars, hvars>>

----------------------------------------------------------------------------
(* Values *)

Undef == [t |-> "undef", v |-> 0]
Null == [t |-> "null", v |-> 0]
Num(n) == [t |-> "num", v |-> n]
Bool(b) == [t |-> "bool", v |-> b]
Str(len) == [t |-> "str", v |-> len]
Ref(a) == [t |-> "ref", v |-> a]

ObjT(fields) == [t |-> "obj", f |-> fields]
ArrT(fields) == [t |-> "arr", f |-> fields]
NoFields == [k \in {} |-> Undef]

IsStruct(tree) == tree.t \in {"obj", "arr"}

\* JavaScript ToBoolean: !loaded is ~Truthy(loaded)
Truthy(val) ==
    CASE val.t = "undef" -> FALSE
      [] val.t = "null" -> FALSE
      [] val.t = "num" -> val.v # 0
      [] val.t = "bool" -> val.v # 0
      [] val.t = "str" -> val.v # 0
      [] OTHER -> TRUE

\* JavaScript typeof
TypeOf(val) ==
    CASE val.t = "undef" -> "undefined"
      [] val.t = "null" -> "object"
      [] val.t = "num" -> "number"
      [] val.t = "bool" -> "boolean"
      [] val.t = "str" -> "string"
      [] OTHER -> "object"

\* Array.isArray
IsArray(h, val) == val.t = "ref" /\ h[val.v].kind = "arr"

\* property read: an absent property reads as undefined
Get(h, a, key) == IF key \in DOMAIN h[a].f THEN h[a].f[key] ELSE Undef

\* property write obj[key] = val
Put(h, a, key, val) ==
    [h EXCEPT ![a].f = [k \in (DOMAIN h[a].f) \cup {key} |->
                            IF k = key THEN val ELSE h[a].f[k]]]

\* for..in enumeration order: integer keys first, then the string keys
KeyOrder == <<"0", "1", "a", "b", "x", "y", "z">>
InDomain(fields, key) == key \in DOMAIN fields
KeysOf(fields) == SelectSeq(KeyOrder, LAMBDA k : InDomain(fields, k))

\* object spread { ...src }: a fresh plain object with src's own properties
Spread(h, a) == Append(h, [kind |-> "obj", f |-> h[a].f])

----------------------------------------------------------------------------
(* mergeDefaults, lines 7-29 *)

RECURSIVE mergeDefaults(_, _, _)
RECURSIVE mergeKeys(_, _, _, _)

\* mergeKeys with the test of line 17 narrowed to "=== undefined": a null in
\* the loaded value is kept instead of being filled from the defaults
mergeKeys_keepNull(h, result, defaults, ks) ==
    IF ks = << >> THEN [h |-> h, r |-> Ref(result)]
    ELSE LET key == Head(ks)
             defaultValue == h[defaults].f[key]
             loadedValue == Get(h, result, key)
         IN IF loadedValue = Undef
            THEN mergeKeys(Put(h, result, key, defaultValue), result, defaults, Tail(ks))
            ELSE IF TypeOf(defaultValue) = "object" /\ defaultValue # Null
                    /\ ~IsArray(h, defaultValue) /\ loadedValue # Null
                 THEN LET m == mergeDefaults(h, loadedValue, defaultValue.v)
                      IN mergeKeys(Put(m.h, result, key, m.r), result, defaults, Tail(ks))
                 ELSE mergeKeys(h, result, defaults, Tail(ks))

\* mergeKeys with the test of line 17 widened to "!loadedValue": falsy loaded
\* values (0, false, "") are overwritten by the defaults
mergeKeys_falsy(h, result, defaults, ks) ==
    IF ks = << >> THEN [h |-> h, r |-> Ref(result)]
    ELSE LET key == Head(ks)
             defaultValue == h[defaults].f[key]
             loadedValue == Get(h, result, key)
         IN IF ~Truthy(loadedValue)
            THEN mergeKeys(Put(h, result, key, defaultValue), result, defaults, Tail(ks))
            ELSE IF TypeOf(defaultValue) = "object" /\ defaultValue # Null
                    /\ ~IsArray(h, defaultValue)
                 THEN LET m == mergeDefaults(h, loadedValue, defaultValue.v)
                      IN mergeKeys(Put(m.h, result, key, m.r), result, defaults, Tail(ks))
                 ELSE mergeKeys(h, result, defaults, Tail(ks))

\* the body of the for..in loop, lines 12-27, for the keys ks still to visit
mergeKeys(h, result, defaults, ks) ==
    IF ks = << >> THEN [h |-> h, r |-> Ref(result)]
    ELSE LET key == Head(ks)
             defaultValue == h[defaults].f[key]
             loadedValue == Get(h, result, key)
         IN IF loadedValue = Undef \/ loadedValue = Null
            THEN mergeKeys(Put(h, result, key, defaultValue), result, defaults, Tail(ks))
            ELSE IF TypeOf(defaultValue) = "object" /\ defaultValue # Null
                    /\ ~IsArray(h, defaultValue)
                 THEN LET m == mergeDefaults(h, loadedValue, defaultValue.v)
                      IN mergeKeys(Put(m.h, result, key, m.r), result, defaults, Tail(ks))
                 ELSE mergeKeys(h, result, defaults, Tail(ks))

\* mergeDefaults with line 10 starting from only the loaded fields that the
\* defaults name: fields the defaults do not name are dropped
mergeDefaults_dropExtra(h, loaded, defaults) ==
    IF ~Truthy(loaded) \/ TypeOf(loaded) # "object"
    THEN [h |-> Spread(h, defaults), r |-> Ref(Len(h) + 1)]
    ELSE LET kept == (DOMAIN h[loaded.v].f) \cap (DOMAIN h[defaults].f)
             start == Append(h, [kind |-> "obj", f |-> [k \in kept |-> h[loaded.v].f[k]]])
         IN mergeKeys(start, Len(h) + 1, defaults, KeysOf(h[defaults].f))

\* mergeDefaults with line 10 as "const result = loaded": the defaults are
\* written into the loaded object itself
mergeDefaults_inPlace(h, loaded, defaults) ==
    IF ~Truthy(loaded) \/ TypeOf(loaded) # "object"
    THEN [h |-> Spread(h, defaults), r |-> Ref(Len(h) + 1)]
    ELSE mergeKeys(h, loaded.v, defaults, KeysOf(h[defaults].f))

\* mergeDefaults(loaded, defaults): returns the new heap and the result value
mergeDefaults(h, loaded, defaults) ==
    IF ~Truthy(loaded) \/ TypeOf(loaded) # "object"
    THEN [h |-> Spread(h, defaults), r |-> Ref(Len(h) + 1)]
    ELSE mergeKeys(Spread(h, loaded.v), Len(h) + 1, defaults, KeysOf(h[defaults].f))

----------------------------------------------------------------------------
(* Heap construction and by-value views *)

RECURSIVE Build(_, _)
RECURSIVE BuildFields(_, _, _, _)

\* allocate the structure described by a tree; returns the heap and the value
Build(h, tree) ==
    IF IsStruct(tree)
    THEN LET a == Len(h) + 1
             h1 == Append(h, [kind |-> tree.t, f |-> NoFields])
         IN BuildFields(h1, a, tree.f, KeysOf(tree.f))
    ELSE [h |-> h, r |-> tree]

BuildFields(h, a, fields, ks) ==
    IF ks = << >> THEN [h |-> h, r |-> Ref(a)]
    ELSE LET b == Build(h, fields[Head(ks)])
         IN BuildFields(Put(b.h, a, Head(ks), b.r), a, fields, Tail(ks))

RECURSIVE TreeOf(_, _)
\* the by-value view of a value in a heap
TreeOf(h, val) ==
    IF val.t = "ref"
    THEN [t |-> h[val.v].kind,
          f |-> [k \in DOMAIN h[val.v].f |-> TreeOf(h, h[val.v].f[k])]]
    ELSE val

RECURSIVE Reach(_, _)
\* the addresses reachable from a value
Reach(h, val) ==
    IF val.t = "ref"
    THEN {val.v} \cup UNION {Reach(h, h[val.v].f[k]) : k \in DOMAIN h[val.v].f}
    ELSE {}

----------------------------------------------------------------------------
(* localStorage texts and JSON *)

\* what getItem returns: null when the key is absent, else a string; a JSON
\* string is represented by the tree it denotes
NoText == [k |-> "absent", tree |-> Undef]
EmptyText == [k |-> "empty", tree |-> Undef]
GarbageText == [k |-> "garbage", tree |-> Undef]
JsonText(tree) == [k |-> "json", tree |-> tree]

\* a getItem result is truthy when it is a non-empty string
TruthyText(text) == text.k \in {"json", "garbage"}

RECURSIVE JSONstringify(_, _)
\* JSON.stringify: undefined properties are omitted, undefined array elements
\* become null
JSONstringify(h, val) ==
    IF val.t = "ref"
    THEN LET fields == h[val.v].f
         IN IF h[val.v].kind = "arr"
            THEN ArrT([k \in DOMAIN fields |->
                        IF fields[k] = Undef THEN Null ELSE JSONstringify(h, fields[k])])
            ELSE ObjT([k \in {j \in DOMAIN fields : fields[j] # Undef} |->
                        JSONstringify(h, fields[k])])
    ELSE val

\* JSON.parse of a well-formed text: fresh objects for the tree it denotes
JSONparse(h, text) == Build(h, text.tree)

----------------------------------------------------------------------------
(* Bounded input universes (trees) *)

Absent == [t |-> "absent", v |-> 0]

\* the objects whose key k is absent or holds one of opts[k]
ObjectsOver(opts) ==
    LET all == UNION {opts[k] : k \in DOMAIN opts}
        choices == {c \in [DOMAIN opts -> all] : \A k \in DOMAIN opts : c[k] \in opts[k]}
    IN {ObjT([k \in {j \in DOMAIN c : c[j] # Absent} |-> c[k]]) : c \in choices}

\* default structures D: a primitive, a null, a sequence or a nested structure
\* (two levels deep) under "a", optionally a second field "b"
DefaultInner ==
    ObjectsOver("x" :> {Absent, Num(0), ObjT("z" :> Num(0))} @@ "y" :> {Absent, Num(0)})
DefaultsA == {Num(0), Null, ArrT("0" :> Num(0))} \cup DefaultInner
MergeDefaultTrees == ObjectsOver("a" :> DefaultsA @@ "b" :> {Absent, Num(5)})

\* loaded values L: unusable values, sequences, and structures that are
\* partial, carry extra fields ("z"), nulls, falsy values or wrong types
LoadedInner ==
    ObjectsOver("x" :> {Absent, Null, Num(1), ObjT(NoFields), ObjT("y" :> Num(9))}
                @@ "y" :> {Absent, Num(1)}
                @@ "z" :> {Absent, Num(9)})
LoadedA ==
    {Absent, Undef, Null, Num(0), Num(1), Str(0), Bool(0), ArrT(NoFields), ArrT("0" :> Num(1))}
        \cup LoadedInner
UnusableLoaded == {Undef, Null, Num(0), Num(1), Str(0), Str(1), Bool(0)}
MergeLoadedTrees ==
    UnusableLoaded \cup {ArrT(NoFields), ArrT("0" :> Num(1))}
        \cup ObjectsOver("a" :> LoadedA @@ "b" :> {Absent, Null, Num(1)} @@ "z" :> {Absent, Num(9)})

\* how many in-place mutations of the merge result the driver performs
MaxMut == 1
\* the values a mutation writes
MutValues == {Num(7)}

----------------------------------------------------------------------------
(* Driver for mergeDefaults: build D and L, call mergeDefaults(L, D), then *)
(* mutate the result in place                                              *)

\* the hook is not instantiated in the merge driver
HookIdle ==
    /\ snapshot = Undef
    /\ storage = NoText
    /\ getThrows = FALSE
    /\ state = Undef
    /\ initState = Undef
    /\ quotaErrorNotified = FALSE
    /\ saveTimeoutRef = 0
    /\ timers = {}
    /\ nextId = 1
    /\ effectPending = FALSE
    /\ hasCleanup = FALSE
    /\ now = 0
    /\ reads = 0
    /\ writes = << >>
    /\ warnings = 0
    /\ errors = 0
    /\ upd = << >>

MergeInit ==
    \E dt \in MergeDefaultTrees, lt \in MergeLoadedTrees :
        LET bd == Build(<< >>, dt)
            bl == Build(bd.h, lt)
        IN /\ heap = bl.h
           /\ dflt = bd.r.v
           /\ loadedV = bl.r
           /\ origD = dt
           /\ origL = lt
           /\ res = Undef
           /\ muts = 0
           /\ pc = "m_start"
           /\ HookIdle

\* const result = mergeDefaults(loaded, defaults)
MergeCall ==
    /\ pc = "m_start"
    /\ LET m == mergeDefaults(heap, loadedV, dflt)
       IN /\ heap' = m.h
          /\ res' = m.r
    /\ pc' = "m_done"
    /\ UNCHANGED <<dflt, loadedV, origD, origL, muts, hvars>>

\* the caller assigns to a field of the result, at any nesting depth
MutateResult ==
    /\ pc = "m_done"
    /\ muts < MaxMut
    /\ \E a \in Reach(heap, res), val \in MutValues :
         \E key \in (DOMAIN heap[a].f) \cup {"z"} :
            heap' = Put(heap, a, key, val)
    /\ muts' = muts + 1
    /\ UNCHANGED <<pc, dflt, loadedV, res, origD, origL, hvars>>

MergeNext == MergeCall \/ MutateResult

SpecMerge == MergeInit /\ [][MergeNext]_vars

----------------------------------------------------------------------------
(* usePersistentState, lines 37-91 *)

\* the delay of the write-back timer, line 81
Window == 1000

\* bounds of the run
MaxTime == 3000
TickStep == 500
MaxIssues == 4

\* inputs of the hook
HookDefaultTrees ==
    {ObjT("a" :> Num(0)),
     ObjT("a" :> ObjT("x" :> Num(0) @@ "y" :> Num(0)) @@ "b" :> Num(5))}
HookLoadedTrees ==
    {ObjT("a" :> ObjT("x" :> Num(1))), ObjT("a" :> Num(1) @@ "z" :> Num(9))}
SnapshotTrees == {Undef, Null, Num(0), Num(1)} \cup HookLoadedTrees
StorageTexts ==
    {NoText, EmptyText, GarbageText, JsonText(Null)} \cup {JsonText(t) : t \in HookLoadedTrees}
\* the value the caller's n-th state writes into field "a": every update
\* produces a state with a text of its own
UpdateValue(n) == Num(10 + n)

\* the try block with the two sources swapped: the backend is consulted
\* before the bootstrap slot
LoadTry_storageFirst(h, initialState) ==
    IF getThrows
    THEN [h |-> h, r |-> Undef, reads |-> 1, threw |-> TRUE]
    ELSE IF TruthyText(storage)
         THEN IF storage.k = "garbage"
              THEN [h |-> h, r |-> Undef, reads |-> 1, threw |-> TRUE]
              ELSE LET loadedState == JSONparse(h, storage)
                       m == mergeDefaults(loadedState.h, loadedState.r, initialState)
                   IN [h |-> m.h, r |-> m.r, reads |-> 1, threw |-> FALSE]
         ELSE IF Truthy(snapshot)
              THEN LET m == mergeDefaults(h, snapshot, initialState)
                   IN [h |-> m.h, r |-> m.r, reads |-> 1, threw |-> FALSE]
              ELSE [h |-> h, r |-> Ref(initialState), reads |-> 1, threw |-> FALSE]

\* the try block of the useState initializer, lines 40-51
LoadTry(h, initialState) ==
    IF Truthy(snapshot)
    THEN LET m == mergeDefaults(h, snapshot, initialState)
         IN [h |-> m.h, r |-> m.r, reads |-> 0, threw |-> FALSE]
    ELSE IF getThrows
         THEN [h |-> h, r |-> Undef, reads |-> 1, threw |-> TRUE]
         ELSE IF TruthyText(storage)
              THEN IF storage.k = "garbage"
                   THEN [h |-> h, r |-> Undef, reads |-> 1, threw |-> TRUE]
                   ELSE LET loadedState == JSONparse(h, storage)
                            m == mergeDefaults(loadedState.h, loadedState.r, initialState)
                        IN [h |-> m.h, r |-> m.r, reads |-> 1, threw |-> FALSE]
              ELSE [h |-> h, r |-> Ref(initialState), reads |-> 1, threw |-> FALSE]

\* the initializer without its catch clause: the exception leaves it
LoadInitial_rethrow(h, initialState) ==
    LET t == LoadTry(h, initialState)
    IN [h |-> t.h, r |-> t.r, reads |-> t.reads, errors |-> 0, threw |-> t.threw]

\* the initializer with its catch clause, lines 52-55; threw tells whether an
\* exception leaves the initializer
LoadInitial(h, initialState) ==
    LET t == LoadTry(h, initialState)
    IN IF t.threw
       THEN [h |-> h, r |-> Ref(initialState), reads |-> t.reads, errors |-> 1, threw |-> FALSE]
       ELSE [h |-> t.h, r |-> t.r, reads |-> t.reads, errors |-> 0, threw |-> FALSE]

\* before the first render: the caller's defaults, the bootstrap slot and the
\* backend are given
Init ==
    \E dt \in HookDefaultTrees, st \in SnapshotTrees, text \in StorageTexts, gt \in BOOLEAN :
        LET bd == Build(<< >>, dt)
            bs == Build(bd.h, st)
        IN /\ heap = bs.h
           /\ dflt = bd.r.v
           /\ snapshot = bs.r
           /\ storage = text
           /\ getThrows = gt
           /\ gt => text = NoText
           /\ origD = dt
    /\ pc = "init"
    /\ loadedV = Undef
    /\ res = Undef
    /\ origL = Undef
    /\ muts = 0
    /\ state = Undef
    /\ initState = Undef
    /\ quotaErrorNotified = FALSE
    /\ saveTimeoutRef = 0
    /\ timers = {}
    /\ nextId = 1
    /\ effectPending = FALSE
    /\ hasCleanup = FALSE
    /\ now = 0
    /\ reads = 0
    /\ writes = << >>
    /\ warnings = 0
    /\ errors = 0
    /\ upd = << >>

\* the first render without the effect: the timer is armed by updates only
Construct_noEffect ==
    /\ pc = "init"
    /\ LET l == LoadInitial(heap, dflt)
       IN /\ heap' = l.h
          /\ state' = l.r
          /\ initState' = l.r
          /\ reads' = reads + l.reads
          /\ errors' = errors + l.errors
          /\ pc' = IF l.threw THEN "crashed" ELSE "mounted"
          /\ upd' = IF l.threw THEN upd
                    ELSE Append(upd, [at |-> now, text |-> JSONstringify(l.h, l.r)])
    /\ UNCHANGED <<dflt, loadedV, res, origD, origL, muts, snapshot, storage, getThrows,
                   quotaErrorNotified, saveTimeoutRef, timers, nextId, effectPending,
                   hasCleanup, now, writes, warnings>>

\* first render: useState runs the initializer, the effect is scheduled
Construct ==
    /\ pc = "init"
    /\ LET l == LoadInitial(heap, dflt)
       IN /\ heap' = l.h
          /\ state' = l.r
          /\ initState' = l.r
          /\ reads' = reads + l.reads
          /\ errors' = errors + l.errors
          /\ pc' = IF l.threw THEN "crashed" ELSE "mounted"
          /\ effectPending' = ~l.threw
          /\ upd' = IF l.threw THEN upd
                    ELSE Append(upd, [at |-> now, text |-> JSONstringify(l.h, l.r)])
    /\ UNCHANGED <<dflt, loadedV, res, origD, origL, muts, snapshot, storage, getThrows,
                   quotaErrorNotified, saveTimeoutRef, timers, nextId, hasCleanup, now,
                   writes, warnings>>

\* the caller replaces the state: setState(prev => ({ ...prev, a: val })); the
\* new state is rendered and the effect is scheduled (deps [key, state])
Update ==
    /\ pc = "mounted"
    /\ ~effectPending
    /\ Len(upd) < MaxIssues
    /\ LET h1 == Put(Spread(heap, state.v), Len(heap) + 1, "a", UpdateValue(Len(upd) + 1))
       IN   /\ heap' = h1
            /\ state' = Ref(Len(heap) + 1)
            /\ upd' = Append(upd, [at |-> now, text |-> JSONstringify(h1, Ref(Len(heap) + 1))])
    /\ effectPending' = TRUE
    /\ UNCHANGED <<pc, dflt, loadedV, res, origD, origL, muts, snapshot, storage, getThrows,
                   initState, quotaErrorNotified, saveTimeoutRef, timers, nextId, hasCleanup,
                   now, reads, writes, warnings, errors>>

\* window.clearTimeout(id)
ClearTimeout(ts, id) == {t \in ts : t.id # id}

\* the cleanup function of lines 83-87
Cleanup(ts) == IF saveTimeoutRef # 0 THEN ClearTimeout(ts, saveTimeoutRef) ELSE ts

\* the effect without the test of line 62: it keeps arming the timer after
\* the quota warning
RunEffect_noQuotaTest ==
    /\ pc = "mounted"
    /\ effectPending
    /\ effectPending' = FALSE
    /\ LET ts1 == IF hasCleanup THEN Cleanup(timers) ELSE timers
       IN /\ timers' = Cleanup(ts1) \cup
                    {[id |-> nextId, due |-> now + Window, st |-> state, ver |-> Len(upd)]}
          /\ saveTimeoutRef' = nextId
          /\ nextId' = nextId + 1
          /\ hasCleanup' = TRUE
    /\ UNCHANGED <<heap, pc, dflt, loadedV, res, origD, origL, muts, snapshot, storage,
                   getThrows, state, initState, quotaErrorNotified, now, reads, writes,
                   warnings, errors, upd>>

\* the effect without clearTimeout (lines 64-66 and the cleanup): an armed
\* timer survives the next state
RunEffect_noClear ==
    /\ pc = "mounted"
    /\ effectPending
    /\ effectPending' = FALSE
    /\ IF quotaErrorNotified
       THEN /\ hasCleanup' = FALSE
            /\ UNCHANGED <<timers, saveTimeoutRef, nextId>>
       ELSE /\ timers' = timers \cup
                    {[id |-> nextId, due |-> now + Window, st |-> state, ver |-> Len(upd)]}
            /\ saveTimeoutRef' = nextId
            /\ nextId' = nextId + 1
            /\ hasCleanup' = TRUE
    /\ UNCHANGED <<heap, pc, dflt, loadedV, res, origD, origL, muts, snapshot, storage,
                   getThrows, state, initState, quotaErrorNotified, now, reads, writes,
                   warnings, errors, upd>>

\* the effect with the timer armed for twice the delay
RunEffect_late ==
    /\ pc = "mounted"
    /\ effectPending
    /\ effectPending' = FALSE
    /\ LET ts1 == IF hasCleanup THEN Cleanup(timers) ELSE timers
       IN IF quotaErrorNotified
          THEN /\ timers' = ts1
               /\ hasCleanup' = FALSE
               /\ UNCHANGED <<saveTimeoutRef, nextId>>
          ELSE /\ timers' = Cleanup(ts1) \cup
                    {[id |-> nextId, due |-> now + 2 * Window, st |-> state, ver |-> Len(upd)]}
               /\ saveTimeoutRef' = nextId
               /\ nextId' = nextId + 1
               /\ hasCleanup' = TRUE
    /\ UNCHANGED <<heap, pc, dflt, loadedV, res, origD, origL, muts, snapshot, storage,
                   getThrows, state, initState, quotaErrorNotified, now, reads, writes,
                   warnings, errors, upd>>

\* the effect arming the timer only when none was armed before: a later
\* state clears the timer and arms nothing
RunEffect_clearOnly ==
    /\ pc = "mounted"
    /\ effectPending
    /\ effectPending' = FALSE
    /\ LET ts1 == IF hasCleanup THEN Cleanup(timers) ELSE timers
       IN IF quotaErrorNotified
          THEN /\ timers' = ts1
               /\ hasCleanup' = FALSE
               /\ UNCHANGED <<saveTimeoutRef, nextId>>
          ELSE /\ timers' = IF saveTimeoutRef # 0 THEN Cleanup(ts1)
                            ELSE {[id |-> nextId, due |-> now + Window, st |-> state,
                                   ver |-> Len(upd)]}
               /\ saveTimeoutRef' = nextId
               /\ nextId' = nextId + 1
               /\ hasCleanup' = TRUE
    /\ UNCHANGED <<heap, pc, dflt, loadedV, res, origD, origL, muts, snapshot, storage,
                   getThrows, state, initState, quotaErrorNotified, now, reads, writes,
                   warnings, errors, upd>>

\* the effect of lines 61-88 runs: first the cleanup the previous run
\* returned, then the body
RunEffect ==
    /\ pc = "mounted"
    /\ effectPending
    /\ effectPending' = FALSE
    /\ LET ts1 == IF hasCleanup THEN Cleanup(timers) ELSE timers
       IN IF quotaErrorNotified
          THEN /\ timers' = ts1
               /\ hasCleanup' = FALSE
               /\ UNCHANGED <<saveTimeoutRef, nextId>>
          ELSE /\ timers' = Cleanup(ts1) \cup
                    {[id |-> nextId, due |-> now + Window, st |-> state, ver |-> Len(upd)]}
               /\ saveTimeoutRef' = nextId
               /\ nextId' = nextId + 1
               /\ hasCleanup' = TRUE
    /\ UNCHANGED <<heap, pc, dflt, loadedV, res, origD, origL, muts, snapshot, storage,
                   getThrows, state, initState, quotaErrorNotified, now, reads, writes,
                   warnings, errors, upd>>

\* the timer callback with the test of line 73 dropped: every failure of the
\* write is handled as a quota failure
TimerFire_anyErrorIsQuota ==
    /\ pc \in {"mounted", "unmounted"}
    /\ \E t \in timers :
         /\ t.due <= now
         /\ timers' = timers \ {t}
         /\ LET dataStr == JsonText(JSONstringify(heap, t.st))
            IN \/ /\ storage' = dataStr
                  /\ writes' = Append(writes, [ver |-> t.ver, at |-> now, text |-> dataStr, out |-> "ok"])
                  /\ UNCHANGED <<quotaErrorNotified, warnings>>
               \/ /\ \E kind \in {"quota", "other"} :
                       writes' = Append(writes, [ver |-> t.ver, at |-> now, text |-> dataStr, out |-> kind])
                  /\ quotaErrorNotified' = TRUE
                  /\ warnings' = IF quotaErrorNotified THEN warnings ELSE warnings + 1
                  /\ UNCHANGED storage
    /\ UNCHANGED <<heap, pc, dflt, loadedV, res, origD, origL, muts, snapshot, getThrows,
                   state, initState, saveTimeoutRef, nextId, effectPending, hasCleanup, now,
                   reads, errors, upd>>

\* the timer callback with a catch clause that rethrows what is not a quota
\* failure: the exception leaves the callback
TimerFire_uncaught ==
    /\ pc \in {"mounted", "unmounted"}
    /\ \E t \in timers :
         /\ t.due <= now
         /\ timers' = timers \ {t}
         /\ LET dataStr == JsonText(JSONstringify(heap, t.st))
            IN \/ /\ storage' = dataStr
                  /\ writes' = Append(writes, [ver |-> t.ver, at |-> now, text |-> dataStr, out |-> "ok"])
                  /\ UNCHANGED <<quotaErrorNotified, warnings, pc>>
               \/ /\ writes' = Append(writes, [ver |-> t.ver, at |-> now, text |-> dataStr, out |-> "quota"])
                  /\ quotaErrorNotified' = TRUE
                  /\ warnings' = IF quotaErrorNotified THEN warnings ELSE warnings + 1
                  /\ UNCHANGED <<storage, pc>>
               \/ /\ writes' = Append(writes, [ver |-> t.ver, at |-> now, text |-> dataStr, out |-> "other"])
                  /\ pc' = "crashed"
                  /\ UNCHANGED <<storage, quotaErrorNotified, warnings>>
    /\ UNCHANGED <<heap, dflt, loadedV, res, origD, origL, muts, snapshot, getThrows,
                   state, initState, saveTimeoutRef, nextId, effectPending, hasCleanup, now,
                   reads, errors, upd>>

\* a timer callback of lines 68-81 runs, whether or not the component is still
\* mounted; setItem succeeds, fails with a quota DOMException, or fails
\* otherwise
TimerFire ==
    /\ pc \in {"mounted", "unmounted"}
    /\ \E t \in timers :
         /\ t.due <= now
         /\ timers' = timers \ {t}
         /\ LET dataStr == JsonText(JSONstringify(heap, t.st))
            IN \/ /\ storage' = dataStr
                  /\ writes' = Append(writes, [ver |-> t.ver, at |-> now, text |-> dataStr, out |-> "ok"])
                  /\ UNCHANGED <<quotaErrorNotified, warnings>>
               \/ /\ writes' = Append(writes, [ver |-> t.ver, at |-> now, text |-> dataStr, out |-> "quota"])
                  /\ quotaErrorNotified' = TRUE
                  /\ warnings' = IF quotaErrorNotified THEN warnings ELSE warnings + 1
                  /\ UNCHANGED storage
               \/ /\ writes' = Append(writes, [ver |-> t.ver, at |-> now, text |-> dataStr, out |-> "other"])
                  /\ UNCHANGED <<storage, quotaErrorNotified, warnings>>
    /\ UNCHANGED <<heap, pc, dflt, loadedV, res, origD, origL, muts, snapshot, getThrows,
                   state, initState, saveTimeoutRef, nextId, effectPending, hasCleanup, now,
                   reads, errors, upd>>

\* the unmount without the cleanup of lines 83-87: an armed timer survives
Unmount_noCleanup ==
    /\ pc = "mounted"
    /\ ~effectPending
    /\ pc' = "unmounted"
    /\ UNCHANGED <<heap, dflt, loadedV, res, origD, origL, muts, snapshot, storage, getThrows,
                   state, initState, quotaErrorNotified, saveTimeoutRef, timers, nextId,
                   effectPending, hasCleanup, now, reads, writes, warnings, errors, upd>>

\* the component unmounts: the last effect's cleanup runs
Unmount ==
    /\ pc = "mounted"
    /\ ~effectPending
    /\ pc' = "unmounted"
    /\ timers' = IF hasCleanup THEN Cleanup(timers) ELSE timers
    /\ UNCHANGED <<heap, dflt, loadedV, res, origD, origL, muts, snapshot, storage, getThrows,
                   state, initState, quotaErrorNotified, saveTimeoutRef, nextId, effectPending,
                   hasCleanup, now, reads, writes, warnings, errors, upd>>

\* time passes, up to the next timer that is due, also after the unmount;
\* scheduled effects and due timers run before the clock moves on
Tick ==
    /\ pc \in {"mounted", "unmounted"}
    /\ ~effectPending
    /\ \A t \in timers : now < t.due
    /\ LET target == now + TickStep
           dues == {t.due : t \in timers}
           next == IF \E d \in dues : d < target
                   THEN CHOOSE d \in dues : \A e \in dues : d <= e
                   ELSE target
       IN /\ next <= MaxTime
          /\ now' = next
    /\ UNCHANGED <<heap, pc, dflt, loadedV, res, origD, origL, muts, snapshot, storage,
                   getThrows, state, initState, quotaErrorNotified, saveTimeoutRef, timers,
                   nextId, effectPending, hasCleanup, reads, writes, warnings, errors, upd>>

Next == Construct \/ Update \/ RunEffect \/ TimerFire \/ Unmount \/ Tick

Spec == Init /\ [][Next]_vars

\* the event loop runs scheduled effects and due timers, and time passes
SpecLive ==
    /\ Spec
    /\ WF_vars(RunEffect)
    /\ WF_vars(TimerFire)
    /\ WF_vars(Tick)

----------------------------------------------------------------------------
(* Properties of mergeDefaults, checked under SpecMerge *)

\* the field of a tree, undefined when the tree is no structure or lacks it
FieldOf(tree, key) ==
    IF IsStruct(tree) /\ key \in DOMAIN tree.f THEN tree.f[key] ELSE Undef

\* the by-value view of the merge result, right after the call
Merged == pc = "m_done" /\ muts = 0
ResultTree == TreeOf(heap, res)

RECURSIVE Covers(_, _, _)
\* R has every field path of D, with D's value wherever L lacks the field or
\* holds null/undefined there
Covers(R, L, D) ==
    /\ IsStruct(R)
    /\ \A k \in DOMAIN D.f :
         /\ k \in DOMAIN R.f
         /\ FieldOf(L, k) \in {Undef, Null} => R.f[k] = D.f[k]
         /\ D.f[k].t = "obj" => Covers(R.f[k], FieldOf(L, k), D.f[k])

\* C1: for every default structure D and every loaded value L, the result of
\* mergeDefaults(L, D) has a value at every field path of D, and D's value at
\* each path where L is missing the field or holds null/undefined.
C1_EveryDefaultPath == Merged => Covers(ResultTree, origL, origD)

\* C1 witness: a merge of a partial structure with a null field against
\* defaults with a nested structure has been performed
C1_Witness ==
    /\ Merged
    /\ IsStruct(origL)
    /\ \E k \in DOMAIN origD.f : origD.f[k].t = "obj" /\ FieldOf(origL, k).t = "obj"
          /\ \E j \in DOMAIN origD.f[k].f : FieldOf(FieldOf(origL, k), j) = Null
    /\ \E k \in DOMAIN origD.f : k \notin DOMAIN origL.f

\* the loaded value is unusable: null, undefined or not an object
Unusable(tree) == ~IsStruct(tree)

\* C5: mergeDefaults(L, D) for an unusable L returns a value equal to D that
\* is an independent copy: no later mutation of the result, at any nesting
\* depth, changes D.
C5_IndependentCopy ==
    (pc = "m_done" /\ Unusable(origL)) =>
        /\ TreeOf(heap, Ref(dflt)) = origD
        /\ muts = 0 => ResultTree = origD

RECURSIVE Preserves(_, _, _)
\* every field of L that D does not name is in R with L's value, at the top
\* level and inside every nested structure that is merged recursively
Preserves(R, L, D) ==
    /\ IsStruct(R)
    /\ \A k \in (DOMAIN L.f) \ (DOMAIN D.f) : k \in DOMAIN R.f /\ R.f[k] = L.f[k]
    /\ \A k \in (DOMAIN L.f) \cap (DOMAIN D.f) :
         (D.f[k].t = "obj" /\ IsStruct(L.f[k])) => Preserves(R.f[k], L.f[k], D.f[k])

\* C6: every field present in the loaded structure L but absent from the
\* default D is preserved with L's value, at the top level and inside every
\* nested structure that is merged recursively.
C6_ExtraFieldsPreserved == (Merged /\ IsStruct(origL)) => Preserves(ResultTree, origL, origD)

\* C6 witness: L carries a field the defaults do not name at the top level
\* and another one inside a nested structure that is merged recursively
C6_Witness ==
    /\ Merged
    /\ IsStruct(origL)
    /\ "z" \in DOMAIN origL.f
    /\ "z" \notin DOMAIN origD.f
    /\ FieldOf(origD, "a").t = "obj"
    /\ FieldOf(origL, "a").t = "obj"
    /\ "z" \in DOMAIN origL.f["a"].f
    /\ ResultTree.f["a"].f["z"] = Num(9)

RECURSIVE TakesLoaded(_, _, _)
\* where D holds a primitive or a sequence and L a non-null, defined value, R
\* holds L's value; where both hold nested structures the property recurses
TakesLoaded(R, L, D) ==
    /\ IsStruct(R)
    /\ \A k \in (DOMAIN L.f) \cap (DOMAIN D.f) :
         L.f[k] \notin {Undef, Null} =>
            /\ k \in DOMAIN R.f
            /\ D.f[k].t # "obj" => R.f[k] = L.f[k]
            /\ (D.f[k].t = "obj" /\ IsStruct(L.f[k])) => TakesLoaded(R.f[k], L.f[k], D.f[k])

\* merge({a:{x:1}}, {a:{x:0,y:0}, b:5})
ExampleDefaults == ObjT("a" :> ObjT("x" :> Num(0) @@ "y" :> Num(0)) @@ "b" :> Num(5))
ExampleLoaded == ObjT("a" :> ObjT("x" :> Num(1)))
ExampleExpected == ObjT("a" :> ObjT("x" :> Num(1) @@ "y" :> Num(0)) @@ "b" :> Num(5))
ExampleResult ==
    LET bd == Build(<< >>, ExampleDefaults)
        bl == Build(bd.h, ExampleLoaded)
        m == mergeDefaults(bl.h, bl.r, bd.r.v)
    IN TreeOf(m.h, m.r)

\* C7: at every path where D holds a primitive or a sequence and L holds a
\* non-null, non-undefined value, the result holds L's value unchanged (falsy
\* values and sequences included, never merged element-wise); nested
\* structures are merged recursively, and merge({a:{x:1}}, {a:{x:0,y:0}, b:5})
\* is {a:{x:1,y:0}, b:5}.
C7_LoadedTakenWholesale ==
    /\ (Merged /\ IsStruct(origL)) => TakesLoaded(ResultTree, origL, origD)
    /\ ExampleResult = ExampleExpected

\* C7 witness: a falsy loaded value met a primitive default and was kept
C7_Witness ==
    /\ Merged
    /\ FieldOf(origD, "a") = Num(0)
    /\ FieldOf(origL, "a") = Bool(0)
    /\ ResultTree.f["a"] = Bool(0)

----------------------------------------------------------------------------
(* Properties of the hook, checked under Spec *)

Issues == 1 .. Len(upd)
\* time between the i-th issued state and the next one
Gap(i) == upd[i + 1].at - upd[i].at
\* the write attempts that carry the i-th issued state
WritesOf(i) == {j \in 1 .. Len(writes) : writes[j].ver = i}
\* the store is alive and has not met the quota
Normal == pc = "mounted" /\ ~quotaErrorNotified
\* scheduled effects and due timers have run
Settled == ~effectPending /\ \A t \in timers : now < t.due
\* the quiet period after the i-th issued state is over
Closed(i) ==
    \/ i < Len(upd) /\ Gap(i) > Window
    \/ i = Len(upd) /\ now >= upd[i].at + Window /\ Settled

\* C2: in a burst of states each issued less than Window after the previous
\* one, no state followed within the window is ever written, every write
\* carries the text of the state it was armed for, no state is written twice,
\* and the last state of a burst is written exactly once when its quiet period
\* is over (store mounted, no quota failure).
C2_BurstWrittenOnce ==
    /\ \A j \in 1 .. Len(writes) :
         LET i == writes[j].ver
         IN /\ i \in Issues
            /\ ~(i < Len(upd) /\ Gap(i) < Window)
            /\ writes[j].text = JsonText(upd[i].text)
    /\ \A i \in Issues : Cardinality(WritesOf(i)) <= 1
    /\ \A i \in Issues : (Normal /\ Closed(i)) => Cardinality(WritesOf(i)) = 1

\* C2 witness: a burst of three updates, each less than Window after the
\* previous one, was written once, with the third update's state
C2_Witness ==
    /\ Normal
    /\ Len(upd) = 4
    /\ Gap(2) < Window /\ Gap(2) > 0
    /\ Gap(3) < Window /\ Gap(3) > 0
    /\ Closed(4)
    /\ Len(writes) >= 1
    /\ writes[Len(writes)].ver = 4
    /\ writes[Len(writes)].text = JsonText(upd[4].text)
    /\ upd[4].text \notin {upd[2].text, upd[3].text}

\* C8: two states issued more than Window apart are both written, the first
\* Window after it was issued, in issue order, each write carrying its own
\* state; writes are never reordered.
C8_SeparateWindowsInOrder ==
    /\ \A i \in Issues :
         (Normal /\ i < Len(upd) /\ Gap(i) > Window /\ Closed(i + 1)) =>
            \E j1, j2 \in 1 .. Len(writes) :
               /\ j1 < j2
               /\ writes[j1].ver = i /\ writes[j1].text = JsonText(upd[i].text)
               /\ writes[j1].at = upd[i].at + Window
               /\ writes[j2].ver = i + 1 /\ writes[j2].text = JsonText(upd[i + 1].text)
               /\ writes[j2].at = upd[i + 1].at + Window
    /\ \A j1, j2 \in 1 .. Len(writes) : j1 < j2 => writes[j1].ver < writes[j2].ver

\* C8 witness: two updates more than Window apart, both written in order
C8_Witness ==
    /\ Normal
    /\ Len(upd) = 3
    /\ Gap(1) > 0
    /\ Gap(2) > Window
    /\ Closed(3)
    /\ \E j \in 1 .. Len(writes) : j < Len(writes) /\ writes[j].ver = 2 /\ writes[j + 1].ver = 3
    /\ upd[2].text # upd[3].text

\* C3: after a write failed with a quota DOMException exactly one warning has
\* been shown, whatever updates follow, and the instance makes no further
\* write attempt: the failed attempt stays the last one and no timer is armed.
C3_QuotaWarnsOnceAndStops ==
    /\ warnings <= 1
    /\ (\E j \in 1 .. Len(writes) : writes[j].out = "quota") <=> quotaErrorNotified
    /\ quotaErrorNotified =>
         /\ warnings = 1
         /\ writes[Len(writes)].out = "quota"
         /\ \A j \in 1 .. Len(writes) - 1 : writes[j].out # "quota"
         /\ timers = {}

\* C3 witness: two updates were issued after the quota failure and their
\* quiet period is over
C3_Witness ==
    /\ quotaErrorNotified
    /\ ~effectPending
    /\ Len(upd) >= writes[Len(writes)].ver + 2
    /\ upd[Len(upd) - 1].at >= writes[Len(writes)].at
    /\ now > upd[Len(upd)].at + Window

RECURSIVE ReconcileT(_, _)
\* the reconciliation of section 4.1 of the specification, on trees
ReconcileT(L, D) ==
    IF ~IsStruct(L) THEN D
    ELSE ObjT([k \in (DOMAIN L.f) \cup (DOMAIN D.f) |->
                IF k \notin DOMAIN D.f THEN L.f[k]
                ELSE IF FieldOf(L, k) \in {Undef, Null} THEN D.f[k]
                ELSE IF D.f[k].t = "obj" THEN ReconcileT(L.f[k], D.f[k])
                ELSE L.f[k]])

\* a bootstrap snapshot (a structure in window.INITIAL_APP_STATE) is present
SnapshotPresent == snapshot.t = "ref"
Constructed == pc # "init"

\* C4: if a bootstrap snapshot is present at construction, the backend is not
\* read during initialization and the initial state is the reconciliation of
\* the snapshot against the defaults.
C4_SnapshotFirst ==
    (Constructed /\ SnapshotPresent) =>
        /\ reads = 0
        /\ pc # "crashed"
        /\ TreeOf(heap, initState) = ReconcileT(TreeOf(heap, snapshot), origD)

\* C4 witness: constructed from a snapshot while the backend held other data
C4_Witness ==
    /\ Constructed
    /\ SnapshotPresent
    /\ storage.k = "json"
    /\ storage.tree # TreeOf(heap, snapshot)
    /\ TreeOf(heap, initState) # origD

\* C9: if the backend holds text that does not deserialize and no bootstrap
\* snapshot is present, the initial state equals the defaults exactly and no
\* exception leaves the initializer (the backend holds its initial text as
\* long as nothing was written).
C9_UnparsableFallsBack ==
    (Constructed /\ ~SnapshotPresent /\ storage = GarbageText /\ Len(writes) = 0) =>
        /\ pc # "crashed"
        /\ TreeOf(heap, initState) = origD

\* C9 witness: constructed over unparsable text, the error was logged
C9_Witness ==
    /\ Constructed
    /\ ~SnapshotPresent
    /\ storage = GarbageText
    /\ errors = 1
    /\ state = initState

\* no source yields a value, or deserialization or the read fails; the
\* backend still holds what it held at construction while nothing was written
NoUsableSource ==
    /\ ~Truthy(snapshot)
    /\ Len(writes) = 0
    /\ getThrows \/ storage \in {NoText, EmptyText, GarbageText}

\* C10: when neither source yields a value, or deserialization fails, the
\* initial state is an independent copy of the caller's defaults and not the
\* caller's own object.
C10_FallbackIsCopy ==
    (Constructed /\ NoUsableSource) =>
        /\ TreeOf(heap, initState) = origD
        /\ initState # Ref(dflt)
        /\ Reach(heap, initState) \cap Reach(heap, Ref(dflt)) = {}

\* the write attempts that failed, by kind of failure
OtherFailures == {j \in 1 .. Len(writes) : writes[j].out = "other"}
QuotaFailures == {j \in 1 .. Len(writes) : writes[j].out = "quota"}
\* the last issued state
Latest == Len(upd)

\* C11: a write that fails with an error other than a quota failure leaves the
\* store Normal: it shows no warning and sets no flag, the failed state is not
\* tried again, and the next replacement still arms the timer and leads to a
\* write attempt with the state current then.
C11_OtherFailureStaysNormal ==
    /\ warnings = Cardinality(QuotaFailures)
    /\ QuotaFailures = {} => ~quotaErrorNotified
    /\ \A j \in OtherFailures :
         /\ \A j2 \in 1 .. Len(writes) : j2 > j => writes[j2].ver > writes[j].ver
         /\ \A t \in timers : t.ver > writes[j].ver
    /\ (Normal /\ ~effectPending /\ OtherFailures # {}) =>
         \/ \E t \in timers : t.ver = Latest /\ t.st = state /\ t.due = upd[Latest].at + Window
         \/ \E j \in WritesOf(Latest) : writes[j].text = JsonText(JSONstringify(heap, state))

\* C11 witness: after a non-quota failure a later replacement was issued and
\* its state was attempted
C11_Witness ==
    /\ Normal
    /\ \E j \in OtherFailures :
         \E j2 \in 1 .. Len(writes) :
            /\ j2 > j
            /\ upd[writes[j2].ver].at >= writes[j].at
            /\ writes[j2].text = JsonText(JSONstringify(heap, state))

\* C12: no failure of the load or of the write-back leaves the hook: no
\* exception escapes, construction always yields a usable state (the defaults
\* when the read fails), and the state stays usable after failed writes.
C12_NoFailurePropagates ==
    /\ pc # "crashed"
    /\ Constructed => (state.t = "ref" /\ heap[state.v].kind = "obj"
                       /\ initState.t = "ref" /\ heap[initState.v].kind = "obj")
    /\ (Constructed /\ ~Truthy(snapshot) /\ getThrows) =>
         (TreeOf(heap, initState) = origD /\ errors = 1)

\* C12 witness: the read threw at construction, later a write failed for
\* another reason and one for the quota, and updates went on in between
C12_Witness ==
    /\ pc = "mounted"
    /\ getThrows
    /\ OtherFailures # {}
    /\ QuotaFailures # {}
    /\ Len(upd) >= 3

\* C13: disposal cancels the outstanding timer: the unmount leaves no timer
\* armed, and once the component is unmounted no write is performed and the
\* backend keeps its text.
C13_NoWriteAfterUnmount ==
    [][/\ pc' = "unmounted" => timers' = {}
       /\ pc = "unmounted" => (writes' = writes /\ storage' = storage)]_vars

\* C13 witness: the component was unmounted while the timer of the last update
\* was outstanding, and the time the timer was due has passed without a write
C13_Witness ==
    /\ pc = "unmounted"
    /\ ~quotaErrorNotified
    /\ Len(upd) >= 2
    /\ WritesOf(Latest) = {}
    /\ now >= upd[Latest].at + Window

\* C14: every write carries the state that is current when the write is
\* performed; a timer armed for an earlier state never writes it after a
\* later replacement was committed.
C14_WritesCarryCurrentState ==
    [][writes' # writes =>
          /\ writes'[Len(writes')].ver = Latest
          /\ writes'[Len(writes')].text = JsonText(JSONstringify(heap, state))]_vars

\* the last issued state was attempted, and stored if the attempt succeeded
Persisted ==
    \E j \in WritesOf(Latest) :
        writes[j].out = "ok" => storage = JsonText(upd[Latest].text)
\* the run is over for the last issued state: the store is not mounted and
\* Normal any more, the clock of the run ends before its timer is due, or it
\* was persisted
Done ==
    \/ pc # "mounted"
    \/ quotaErrorNotified
    \/ upd[Latest].at + Window > MaxTime
    \/ Persisted

\* C15: while the store is mounted and Normal, the last issued state is
\* eventually written to the backend, and the backend holds its serialization
\* when that write succeeds (or a later state has been issued, for which the
\* same holds).
C15_EventuallyPersisted == (pc = "mounted") ~> Done

\* C15 witness: the state of an update was written successfully and the
\* backend holds its serialization
C15_Witness ==
    /\ Normal
    /\ Len(upd) >= 2
    /\ \E j \in WritesOf(Latest) : writes[j].out = "ok"
    /\ storage = JsonText(JSONstringify(heap, state))
    /\ storage # JsonText(upd[1].text)

\* a state was issued after the quota failure and its effect has run
ReplacedAfterQuota ==
    /\ pc = "mounted"
    /\ quotaErrorNotified
    /\ ~effectPending
    /\ Latest > writes[Len(writes)].ver

\* C16 as claimed: after the quota failure a further replacement still arms
\* the timer (and the write is skipped only when the timer fires).
C16_ArmsAfterQuota ==
    (ReplacedAfterQuota /\ now < upd[Latest].at + Window) =>
        \E t \in timers : t.ver = Latest

\* C16 as amended: after the quota failure a further replacement arms no
\* timer at all: the effect returns before arming and registers no cleanup,
\* and the state is never attempted.
C16_NoTimerAfterQuota ==
    ReplacedAfterQuota => (timers = {} /\ ~hasCleanup /\ WritesOf(Latest) = {})

\* C16 witness: a replacement came after the quota failure and its quiet
\* period is over
C16_Witness ==
    /\ ReplacedAfterQuota
    /\ upd[Latest].at >= writes[Len(writes)].at
    /\ now >= upd[Latest].at + Window

\* C17: mergeDefaults is pure: the call changes neither L nor D at any depth,
\* and a second call with the same arguments changes no existing object and
\* returns an equal result.
C17_MergeIsPure ==
    Merged =>
        /\ TreeOf(heap, loadedV) = origL
        /\ TreeOf(heap, Ref(dflt)) = origD
        /\ LET again == mergeDefaults(heap, loadedV, dflt)
           IN /\ SubSeq(again.h, 1, Len(heap)) = heap
              /\ TreeOf(again.h, again.r) = ResultTree
              /\ again.r # res

\* C17 witness: a merge that filled fields from the defaults into a loaded
\* structure with fields of its own
C17_Witness ==
    /\ Merged
    /\ IsStruct(origL)
    /\ ResultTree # origL
    /\ ResultTree # origD
    /\ FieldOf(origL, "a").t = "obj"
    /\ FieldOf(origD, "a").t = "obj"
    /\ ResultTree.f["a"] # origL.f["a"]

\* C18: every write attempt that fails with something else than a quota
\* failure produces a log event (a console.error call).
C18_OtherFailuresLogged ==
    [][(writes' # writes /\ writes'[Len(writes')].out = "other") => errors' > errors]_vars

\* C19: at most one timer is pending, and it is the one saveTimeoutRef names.
C19_AtMostOneTimer ==
    /\ Cardinality(timers) <= 1
    /\ \A t \in timers : t.id = saveTimeoutRef

\* C19 witness: the timer was armed three times in a row, each effect run
\* clearing a timer that had not fired
C19_Witness ==
    /\ Cardinality(timers) = 1
    /\ nextId >= 4
    /\ Len(writes) = 0

\* C20: construction arms the timer: with no update and no unmount the initial
\* state is attempted exactly once, Window after construction, and when that
\* write succeeds the backend holds the initial state instead of what it held.
C20_ConstructionArmsWrite ==
    /\ (pc = "mounted" /\ Len(upd) = 1 /\ ~effectPending /\ Len(writes) = 0) =>
         \E t \in timers : t.ver = 1 /\ t.st = initState /\ t.due = upd[1].at + Window
    /\ (pc = "mounted" /\ Len(upd) = 1 /\ now >= upd[1].at + Window /\ Settled) =>
         /\ Len(writes) = 1
         /\ writes[1].at = upd[1].at + Window
         /\ writes[1].text = JsonText(JSONstringify(heap, initState))
         /\ writes[1].out = "ok" => storage = writes[1].text

\* C20 witness: constructed over unparsable text with no update, the defaults
\* were written over it
C20_Witness ==
    /\ pc = "mounted"
    /\ Len(upd) = 1
    /\ errors = 1
    /\ ~getThrows
    /\ Len(writes) = 1
    /\ writes[1].out = "ok"
    /\ storage = JsonText(origD)

====
